---------------------------- MODULE Spec2Model ----------------------------
(***************************************************************************)
(* Model of src/report_generator.py: LoanReportPDF (an FPDF subclass) and  *)
(* ReportGenerator.generate_report, one rendering pass over an input       *)
(* bundle.  The render is a sequence of steps (pc), one per block of       *)
(* generate_report; every step drives the page-layout object `pdf`, whose  *)
(* drawn cells are logged in pdf.items with the font, colour, page and     *)
(* vertical position current when they were drawn.                         *)
(*                                                                         *)
(* Python values are records [t, c, s, l]: t the type tag, c the number in *)
(* hundredths (ints and floats), s the string as a sequence of tokens, l   *)
(* the number of lines the layout library wraps the string to.  A dict is  *)
(* a function whose DOMAIN is the set of keys present.                     *)
(***************************************************************************)
EXTENDS Integers, Sequences, FiniteSets, TLC

VARIABLES inp, pc, pdf, dest, writes, ret

vars == <<inp, pc, pdf, dest, writes, ret>>

-----------------------------------------------------------------------------
(* Bounds of the model. *)
MaxDocs == 2
MaxSlips == 4
MaxObligations == 3
MaxList == 2
MaxLines == 2

-----------------------------------------------------------------------------
(* Python values *)

PyInt(n) == [t |-> "int", c |-> 100 * n, s |-> <<>>, l |-> 1]
PyFloat(cents) == [t |-> "float", c |-> cents, s |-> <<>>, l |-> 1]
PyStr(toks, lines) == [t |-> "str", c |-> 0, s |-> toks, l |-> lines]
PyBool(b) == [t |-> "bool", c |-> IF b THEN 100 ELSE 0, s |-> <<>>, l |-> 1]
PyNone == [t |-> "none", c |-> 0, s |-> <<>>, l |-> 1]

EmptyDict == <<>>

\* dict.get(key, default)
Get(d, key, default) == IF key \in DOMAIN d THEN d[key] ELSE default

IsNumber(v) == v.t \in {"int", "float", "bool"}

\* Python truthiness: bool(v)
Truthy(v) ==
    CASE v.t \in {"int", "float", "bool"} -> v.c # 0
      [] v.t = "str" -> Len(v.s) > 0
      [] OTHER -> FALSE

-----------------------------------------------------------------------------
(* Text: the result of evaluating a Python string expression: the tokens,  *)
(* the lines it wraps to, or the exception the evaluation raised.          *)

Txt(toks) == [exc |-> "", toks |-> toks, lines |-> 1]
Lit(string) == Txt(<<string>>)
Raises(e) == [exc |-> e, toks |-> <<>>, lines |-> 1]

Max(a, b) == IF a >= b THEN a ELSE b
Min(a, b) == IF a <= b THEN a ELSE b

\* Two parts of an f-string, evaluated left to right.
Cat(a, b) ==
    IF a.exc # "" THEN a
    ELSE IF b.exc # "" THEN b
    ELSE [exc |-> "", toks |-> a.toks \o b.toks, lines |-> Max(a.lines, b.lines)]

DigitTokens == <<"0", "1", "2", "3", "4", "5", "6", "7", "8", "9">>

RECURSIVE Digits(_)
Digits(n) ==
    IF n < 10 THEN <<DigitTokens[n + 1]>>
    ELSE Digits(n \div 10) \o <<DigitTokens[(n % 10) + 1]>>

Pad2(n) == <<DigitTokens[(n \div 10) + 1], DigitTokens[(n % 10) + 1]>>
Pad3(n) == <<DigitTokens[(n \div 100) + 1]>> \o Pad2(n % 100)

\* The ',' option of the format mini-language: groups of three digits.
RECURSIVE Grouped(_)
Grouped(n) ==
    IF n < 1000 THEN Digits(n)
    ELSE Grouped(n \div 1000) \o <<",">> \o Pad3(n % 1000)

Abs(n) == IF n < 0 THEN 0 - n ELSE n
Sign(cents) == IF cents < 0 THEN <<"-">> ELSE <<>>

\* Rounding of a value in hundredths to an integer, ties to even (the 'f'
\* presentation type with precision 0).
RoundHalfEven(a) ==
    LET q == a \div 100
        r == a % 100
    IN  IF r > 50 \/ (r = 50 /\ q % 2 = 1) THEN q + 1 ELSE q

\* A non-number under an 'f' format specification.
FormatError(v) == IF v.t = "str" THEN Raises("ValueError") ELSE Raises("TypeError")

\* An amount kept with its two decimal places where none are wanted.
FmtCommaDecimals(v) ==
    IF ~IsNumber(v) THEN FormatError(v)
    ELSE Txt(Sign(v.c) \o Grouped(Abs(v.c) \div 100) \o <<".">> \o Pad2(Abs(v.c) % 100))

\* f"{v:,.0f}"
FmtComma0(v) ==
    IF ~IsNumber(v) THEN FormatError(v)
    ELSE Txt(Sign(v.c) \o Grouped(RoundHalfEven(Abs(v.c))))

\* f"{v:,.2f}"
FmtComma2(v) ==
    IF ~IsNumber(v) THEN FormatError(v)
    ELSE Txt(Sign(v.c) \o Grouped(Abs(v.c) \div 100) \o <<".">> \o Pad2(Abs(v.c) % 100))

\* f"{v:.2f}"
FmtFixed2(v) ==
    IF ~IsNumber(v) THEN FormatError(v)
    ELSE Txt(Sign(v.c) \o Digits(Abs(v.c) \div 100) \o <<".">> \o Pad2(Abs(v.c) % 100))

\* repr of a float given in hundredths: at least one decimal, no trailing zero.
FloatRepr(cents) ==
    LET a == Abs(cents)
        frac == a % 100
    IN  Sign(cents) \o Digits(a \div 100) \o <<".">> \o
        (IF frac % 10 = 0 THEN <<DigitTokens[(frac \div 10) + 1]>> ELSE Pad2(frac))

\* str(v), also f"{v}"
Str(v) ==
    CASE v.t = "int" -> Txt(Sign(v.c) \o Digits(Abs(v.c) \div 100))
      [] v.t = "float" -> Txt(FloatRepr(v.c))
      [] v.t = "str" -> [exc |-> "", toks |-> v.s, lines |-> v.l]
      [] v.t = "bool" -> IF v.c # 0 THEN Lit("True") ELSE Lit("False")
      [] OTHER -> Lit("None")

LowerLetters == <<"a", "b", "c", "d", "e", "f", "g", "h", "i", "j", "k", "l", "m",
                  "n", "o", "p", "q", "r", "s", "t", "u", "v", "w", "x", "y", "z">>
UpperLetters == <<"A", "B", "C", "D", "E", "F", "G", "H", "I", "J", "K", "L", "M",
                  "N", "O", "P", "Q", "R", "S", "T", "U", "V", "W", "X", "Y", "Z">>

IsLetter(ch) == \E i \in 1..26 : ch = LowerLetters[i] \/ ch = UpperLetters[i]
Upper(ch) == IF \E i \in 1..26 : ch = LowerLetters[i]
             THEN UpperLetters[CHOOSE i \in 1..26 : ch = LowerLetters[i]] ELSE ch
Lower(ch) == IF \E i \in 1..26 : ch = UpperLetters[i]
             THEN LowerLetters[CHOOSE i \in 1..26 : ch = UpperLetters[i]] ELSE ch

\* str.title() on a string given character by character: a letter that follows
\* a non-letter is upper-cased, every other letter lower-cased.
Title(chars) ==
    [i \in 1..Len(chars) |->
        IF i = 1 \/ ~IsLetter(chars[i - 1]) THEN Upper(chars[i]) ELSE Lower(chars[i])]

\* loan_type.title(): only a str has the method.
TitleOf(v) ==
    IF v.t = "str" THEN [exc |-> "", toks |-> Title(v.s), lines |-> v.l]
    ELSE Raises("AttributeError")

-----------------------------------------------------------------------------
(* The page-layout object.  Lengths are whole millimetres; y is measured   *)
(* from the top margin of the page.  A method body is the sequence of the  *)
(* calls it makes on the object, run in order by Run.                      *)

Black == <<0, 0, 0>>
White == <<255, 255, 255>>
Red == <<255, 0, 0>>
Green == <<0, 128, 0>>
Orange == <<255, 140, 0>>
Grey == <<100, 100, 100>>

\* set_auto_page_break(auto=True, margin=15) on an A4 page: a cell of height h
\* at y breaks the page when y + h exceeds the trigger, 15 mm above the bottom
\* edge (297 - 15 - 10 mm below the top margin, less a fraction of a millimetre).
PageBreakTrigger == 271

\* LoanReportPDF(): no page yet, default font, black text.
NewPDF ==
    [page |-> 0, y |-> 0, lasth |-> 0, font |-> <<"", "", 12>>, tc |-> Black,
     fill |-> Black, zone |-> "content", items |-> <<>>, exc |-> ""]

set_font(family, style, size) == <<[op |-> "set_font", font |-> <<family, style, size>>]>>

set_text_color(rgb) == <<[op |-> "set_text_color", rgb |-> rgb]>>

set_fill_color(rgb) == <<[op |-> "set_fill_color", rgb |-> rgb]>>

\* ln(h): the cursor goes down by h; no page break is decided here.
ln(h) == <<[op |-> "ln", h |-> h]>>

\* ln() without a height: the height of the last cell.
ln_last == <<[op |-> "ln_last"]>>

cell(w, h, txt, border, lnflag, align, fill) ==
    <<[op |-> "cell", w |-> w, h |-> h, txt |-> txt, border |-> border, ln |-> lnflag,
       align |-> align, fill |-> fill]>>

multi_cell(w, h, txt) == <<[op |-> "multi_cell", w |-> w, h |-> h, txt |-> txt]>>

\* An exception raised between two calls on the object.
raise(exc) == <<[op |-> "raise", exc |-> exc]>>

\* header(): the page header
header ==
    set_font("Arial", "B", 16)
    \o cell(0, 10, Lit("LOAN APPLICATION ANALYSIS REPORT"), 0, 1, "C", FALSE)
    \o ln(5)

\* footer(): the page footer, 15 mm above the bottom edge
footer(page_no) ==
    <<[op |-> "set_y", y |-> PageBreakTrigger]>>
    \o set_font("Arial", "I", 8)
    \o cell(0, 10, Cat(Lit("Page "), Txt(Digits(page_no))), 0, 0, "C", FALSE)

\* What one cell paints, with the state it is painted in.
Item(p, w, h, txt, border, align, fill, line) ==
    [zone |-> p.zone, page |-> p.page, y |-> p.y, w |-> w, h |-> h, txt |-> txt.toks,
     line |-> line, font |-> p.font, tc |-> p.tc, border |-> border, align |-> align,
     fill |-> IF fill THEN p.fill ELSE <<>>]

Paints(txt, border, fill) == Len(txt.toks) > 0 \/ border # 0 \/ fill

RECURSIVE Exec(_, _)

\* The calls of `cmds` from position lo to hi, in order; an exception ends them.
RECURSIVE RunRange(_, _, _, _)
RunRange(p, cmds, lo, hi) ==
    IF lo > hi THEN p
    ELSE IF lo = hi THEN Exec(p, cmds[lo])
    ELSE LET mid == (lo + hi) \div 2
             q == RunRange(p, cmds, lo, mid)
         IN  IF q.exc # "" THEN q ELSE RunRange(q, cmds, mid + 1, hi)

Run(p, cmds) == RunRange(p, cmds, 1, Len(cmds))

\* The footer, drawn with in_footer set.
draw_footer(p) == [Run([p EXCEPT !.zone = "footer"], footer(p.page)) EXCEPT !.zone = p.zone]

\* FPDF.add_page: the footer closes the current page, the header opens the next;
\* both are called with the font saved and restored around them and with the
\* text and fill colours that are current.
add_page(p) ==
    LET closed == IF p.page > 0 THEN draw_footer(p) ELSE p
        begun == [closed EXCEPT !.page = @ + 1, !.y = 0, !.font = p.font,
                                !.tc = p.tc, !.fill = p.fill, !.zone = "header"]
        headed == Run(begun, header)
    IN  [headed EXCEPT !.font = p.font, !.tc = p.tc, !.fill = p.fill, !.zone = p.zone]

\* Whether a cell of height h at the cursor breaks the page.
BreaksPage(p, h) == p.y + h > PageBreakTrigger /\ p.zone # "footer"

\* FPDF.cell for one line of text (line is the line's index in its multi_cell):
\* an automatic page break first, when the cell does not fit and the footer is
\* not being drawn.
draw_cell(p, w, h, txt, border, lnflag, align, fill, line) ==
    IF txt.exc # "" THEN [p EXCEPT !.exc = txt.exc]
    ELSE LET q == IF BreaksPage(p, h) THEN add_page(p) ELSE p
             drawn == IF Paints(txt, border, fill)
                      THEN Append(q.items, Item(q, w, h, txt, border, align, fill, line))
                      ELSE q.items
         IN  [q EXCEPT !.items = drawn, !.lasth = h,
                       !.y = IF lnflag = 0 THEN @ ELSE @ + h]

\* FPDF.multi_cell: one cell per wrapped line, each below the last.
RECURSIVE draw_multi_cell(_, _, _, _, _)
draw_multi_cell(p, w, h, txt, line) ==
    IF txt.exc # "" THEN [p EXCEPT !.exc = txt.exc]
    ELSE IF line > txt.lines THEN p
    ELSE draw_multi_cell(draw_cell(p, w, h, txt, 0, 2, "J", FALSE, line), w, h, txt, line + 1)

\* One call on the layout object.
Exec(p, c) ==
    CASE c.op = "set_font" -> [p EXCEPT !.font = c.font]
      [] c.op = "set_text_color" -> [p EXCEPT !.tc = c.rgb]
      [] c.op = "set_fill_color" -> [p EXCEPT !.fill = c.rgb]
      [] c.op = "ln" -> [p EXCEPT !.y = @ + c.h]
      [] c.op = "ln_last" -> [p EXCEPT !.y = @ + p.lasth]
      [] c.op = "set_y" -> [p EXCEPT !.y = c.y]
      [] c.op = "cell" -> draw_cell(p, c.w, c.h, c.txt, c.border, c.ln, c.align, c.fill, 1)
      [] c.op = "multi_cell" -> draw_multi_cell(p, c.w, c.h, c.txt, 1)
      [] c.op = "raise" -> [p EXCEPT !.exc = c.exc]

\* FPDF.close, called by output(): the footer of the last page.
close(p) == draw_footer(IF p.page = 0 THEN add_page(p) ELSE p)

\* LoanReportPDF.section_title
section_title(title) ==
    set_font("Arial", "B", 14)
    \o set_fill_color(<<70, 130, 180>>)
    \o set_text_color(White)
    \o cell(0, 10, Lit(title), 0, 1, "L", TRUE)
    \o set_text_color(Black)
    \o ln(3)

\* LoanReportPDF.add_field
add_field(label, value) ==
    IF value.exc # "" THEN raise(value.exc)
    ELSE set_font("Arial", "B", 10)
         \o cell(70, 7, Cat(Lit(label), Lit(":")), 0, 0, "", FALSE)
         \o set_font("Arial", "", 10)
         \o multi_cell(0, 7, value)

\* The calls of several call lists, one list after the other.
RECURSIVE CallsRange(_, _, _)
CallsRange(parts, lo, hi) ==
    IF lo > hi THEN <<>>
    ELSE IF lo = hi THEN parts[lo]
    ELSE CallsRange(parts, lo, (lo + hi) \div 2) \o CallsRange(parts, ((lo + hi) \div 2) + 1, hi)

Calls(parts) == CallsRange(parts, 1, Len(parts))

\* One row of cells of a table, left to right on one line.
row_cells(widths, texts, h, align, fill) ==
    Calls([i \in 1..Len(texts) |-> cell(widths[i], h, texts[i], 1, 0, align, fill)])

\* lines 55-58: the data rows, every cell through str()
table_rows(widths, data) ==
    Calls([r \in 1..Len(data) |-> row_cells(widths, data[r], 7, "L", FALSE) \o ln_last])

\* LoanReportPDF.add_table
add_table(headers, data, col_widths) ==
    set_font("Arial", "B", 9)
    \o set_fill_color(<<200, 220, 255>>)
    \o row_cells(col_widths, headers, 8, "C", TRUE) \o ln_last
    \o set_font("Arial", "", 8)
    \o table_rows(col_widths, data)
    \o ln(3)

-----------------------------------------------------------------------------
(* generate_report, block by block: the calls each block makes on the      *)
(* layout object, for the input it reads.                                  *)

NA == PyStr(<<"N/A">>, 1)
Zero == PyInt(0)

RECURSIVE CatAll(_)
CatAll(parts) ==
    IF Len(parts) = 0 THEN Txt(<<>>) ELSE Cat(Head(parts), CatAll(Tail(parts)))

\* d[key]: KeyError when the key is absent
Index(d, key) == IF key \in DOMAIN d THEN Str(d[key]) ELSE Raises("KeyError")

\* pdf.cell(10): an empty cell that moves the cursor to the right
indent == cell(10, 0, Txt(<<>>), 0, 0, "", FALSE)

\* lines 72-77: the document, its first page and the timestamp line
Begin(now) ==
    set_font("Arial", "I", 9)
    \o cell(0, 5, Cat(Lit("Generated on: "), Lit(now)), 0, 1, "R", FALSE)
    \o ln(5)

\* lines 83-94: one uploaded-document descriptor
UploadedDocument(doc, i) ==
    set_font("Arial", "B", 10)
    \o cell(0, 6, Cat(Lit("- "), Index(doc, "document_type")), 0, 1, "", FALSE)
    \o set_font("Arial", "", 9)
    \o (IF "period" \in DOMAIN doc
        THEN indent
             \o cell(0, 5,
                     CatAll(<<Lit("  Period: "), Str(Get(doc, "period_start", NA)),
                              Lit(" to "), Str(Get(doc, "period_end", NA)),
                              Lit(" ("), Index(doc, "period"), Lit(")")>>),
                     0, 1, "", FALSE)
        ELSE <<>>)
    \o (IF Truthy(Get(doc, "warning", PyNone))
        THEN set_text_color(Red)
             \o indent
             \o cell(0, 5, Cat(Lit("  warning "), Index(doc, "warning")), 0, 1, "", FALSE)
             \o set_text_color(Black)
        ELSE <<>>)

\* lines 79-96
DocumentsUploaded(pending_docs) ==
    LET details == Get(pending_docs, "uploaded_documents_details", <<>>)
    IN  section_title("DOCUMENTS UPLOADED")
        \o (IF Len(details) > 0
            THEN Calls([i \in 1..Len(details) |-> UploadedDocument(details[i], i)])
            ELSE <<>>)
        \o ln(5)

\* The label/value pairs of the applicant summary: label, key, suffix.
PersonalFields ==
    << <<"Applicant Name", "applicant_name", "">>, <<"PAN", "pan_masked", "">>,
       <<"Aadhar", "aadhar_masked", "">>, <<"Date of Birth", "date_of_birth", "">>,
       <<"Current Age", "current_age", " years">>, <<"Mobile Number", "mobile_no", "">>,
       <<"Email ID", "email_id", "">>, <<"Current Address", "current_address", "">> >>

EmploymentFields ==
    << <<"Employer/Company", "employer", "">>, <<"Designation", "designation", "">>,
       <<"Department", "department", "">>, <<"Job Since", "job_since", "">>,
       <<"Total Experience", "total_experience", "">>,
       <<"Office Address", "office_address", "">> >>

\* A render that leaves a missing field blank.
PlaceholderBlank == PyStr(<<"">>, 1)

\* The marker a labelled field shows for an absent key: d.get(key, 'N/A')
Placeholder == NA

\* f"{d.get(key, 'N/A')}{suffix}"
FieldValue(d, key, suffix) ==
    IF suffix = "" THEN Str(Get(d, key, Placeholder))
    ELSE Cat(Str(Get(d, key, Placeholder)), Lit(suffix))

add_fields(d, fields) ==
    Calls([i \in 1..Len(fields) |->
              add_field(fields[i][1], FieldValue(d, fields[i][2], fields[i][3]))])

\* lines 98-117
ApplicantSummary(applicant_data) ==
    section_title("1. APPLICANT SUMMARY")
    \o add_fields(applicant_data, PersonalFields)
    \o ln(3)
    \o add_field("Employment Type", Lit("Salaried"))
    \o add_fields(applicant_data, EmploymentFields)
    \o ln(5)

SalaryWidths == <<22, 20, 20, 20, 20, 25, 18, 18, 25>>
SalaryHeaders ==
    <<Lit("Month"), Lit("Basic"), Lit("HRA"), Lit("Medical"), Lit("Bonus"), Lit("Gross"),
      Lit("TDS"), Lit("Prof. Tax"), Lit("Net")>>

\* lines 142-156: the nine cells of one slip
SlipData(slip) ==
    LET earnings == Get(slip, "earnings", EmptyDict)
        deductions == Get(slip, "deductions", EmptyDict)
    IN  <<Str(Get(slip, "month", NA)),
          FmtComma0(Get(earnings, "basic", Zero)),
          FmtComma0(Get(earnings, "hra", Zero)),
          FmtComma0(Get(earnings, "medical_allowance", Zero)),
          FmtComma0(Get(earnings, "bonus", Zero)),
          FmtComma0(Get(slip, "gross_salary", Zero)),
          FmtComma0(Get(deductions, "tds", Zero)),
          FmtComma0(Get(deductions, "professional_tax", Zero)),
          FmtComma0(Get(slip, "net_salary", Zero))>>

\* The first exception the evaluation of a list of texts raises, left to right.
RECURSIVE FirstExc(_)
FirstExc(texts) ==
    IF Len(texts) = 0 THEN ""
    ELSE IF Head(texts).exc # "" THEN Head(texts).exc ELSE FirstExc(Tail(texts))

\* lines 141-159: one row of the salary table; the list `data` is built first
SalaryRow(slip, i) ==
    LET data == SlipData(slip)
    IN  IF FirstExc(data) # "" THEN raise(FirstExc(data))
        ELSE row_cells(SalaryWidths, data, 8, "R", FALSE) \o ln(8)

\* A table of every slip, without the slice.
RenderedSlipsAll(slips) == slips

\* slips[:3]
RenderedSlips(slips) == SubSeq(slips, 1, Min(3, Len(slips)))

\* A table only for two slips or more.
HasSeveralSlips(slips) == Len(slips) > 1

\* if slips and len(slips) > 0
HasSlips(slips) == Len(slips) > 0

\* lines 120-165
SalaryBreakup(salary_analysis) ==
    LET slips == Get(salary_analysis, "salary_slips", <<>>)
    IN  section_title("2. COMPLETE SALARY BREAKUP (Last 3 Months)")
        \o (IF HasSlips(slips)
            THEN set_font("Arial", "B", 9)
                 \o set_fill_color(<<220, 220, 220>>)
                 \o row_cells(SalaryWidths, SalaryHeaders, 8, "C", TRUE)
                 \o ln(8)
                 \o set_font("Arial", "", 8)
                 \o Calls([i \in 1..Len(RenderedSlips(slips)) |->
                              SalaryRow(RenderedSlips(slips)[i], i)])
            ELSE set_font("Arial", "I", 9)
                 \o cell(0, 8, Lit("Salary details unavailable"), 0, 1, "", FALSE))
        \o ln(5)

\* eligibility_results.get('calculations', {})
Calculations(eligibility_results) == Get(eligibility_results, "calculations", EmptyDict)

\* f"{calculations.get(key, 'N/A')} years"
Years(calculations, key) == Cat(Str(Get(calculations, key, Placeholder)), Lit(" years"))

\* lines 167-190
EligibilitySummary(applicant_data, eligibility_results) ==
    LET calc == Calculations(eligibility_results)
    IN  Calls(<<section_title("3. LOAN ELIGIBILITY SUMMARY"),
                add_field("Requested Loan Amount",
                             Cat(Lit("Rs"), FmtComma0(Get(applicant_data, "loan_amount", Zero)))),
                add_field("Tenure (Auto-calculated based on age)",
                             Years(calc, "approved_tenure_years")),
                add_field("Interest Rate",
                             Cat(Str(Get(applicant_data, "interest_rate", PyFloat(850))),
                                 Lit("% p.a."))),
                ln(2),
                add_field("Current Age", Years(calc, "current_age")),
                add_field("Maximum Age Limit", Lit("60 years")),
                add_field("Remaining Service Years", Years(calc, "remaining_service_years")),
                add_field("Maximum Tenure Allowed", Years(calc, "max_tenure_allowed")),
                ln(2),
                add_field("Current FOIR (before new loan)",
                             Cat(FmtFixed2(Get(calc, "current_foir_percent", Zero)), Lit("%"))),
                add_field("FOIR with Requested Loan",
                             Cat(FmtFixed2(Get(calc, "foir_with_requested_loan", Zero)), Lit("%"))),
                add_field("Maximum FOIR Allowed", Lit("60.00%")),
                ln(2),
                add_field("EMI for Requested Loan",
                             Cat(Lit("Rs"), FmtComma2(Get(calc, "emi_for_requested_loan", Zero)))),
                add_field("Maximum EMI Capacity",
                             Cat(Lit("Rs"), FmtComma2(Get(calc, "max_emi_allowed", Zero)))),
                add_field("Maximum Loan by Income",
                             Cat(Lit("Rs"), FmtComma2(Get(calc, "max_loan_by_income", Zero)))),
                ln(3)>>)

\* if eligibility_results.get('eligible')
IsEligible(eligibility_results) == Truthy(Get(eligibility_results, "eligible", PyNone))

\* recommended >= 0: a recommended amount of zero would be shown.
ShowRecommendedFromZero(recommended) == recommended.c >= 0

\* recommended > 0, for a number
ShowRecommended(recommended) == recommended.c > 0

\* lines 194-198
EligibleBlock(calc) ==
    set_text_color(Green)
    \o cell(0, 10, Lit("ELIGIBLE FOR LOAN"), 0, 1, "", FALSE)
    \o set_font("Arial", "B", 11)
    \o cell(0, 7,
            Cat(Lit("Approved Amount: Rs"), FmtComma0(Get(calc, "approved_loan_amount", Zero))),
            0, 1, "", FALSE)

\* lines 200-205; recommended > 0 is a TypeError when recommended is no number
NotEligibleBlock(calc) ==
    LET recommended == Get(calc, "recommended_loan_amount", Zero)
    IN  set_text_color(Red)
        \o cell(0, 10, Lit("NOT ELIGIBLE AS PER CURRENT NORMS"), 0, 1, "", FALSE)
        \o (IF ~IsNumber(recommended) THEN raise("TypeError")
            ELSE IF ShowRecommended(recommended)
            THEN set_font("Arial", "B", 11)
                 \o cell(0, 7, Cat(Lit("Recommended Amount: Rs"), FmtComma0(recommended)),
                         0, 1, "", FALSE)
            ELSE <<>>)

\* lines 192-208
Verdict(eligibility_results) ==
    LET calc == Calculations(eligibility_results)
    IN  set_font("Arial", "B", 12)
        \o (IF IsEligible(eligibility_results)
            THEN EligibleBlock(calc) ELSE NotEligibleBlock(calc))
        \o set_text_color(Black)
        \o ln(3)

\* pdf.multi_cell(0, 5, f"  - {entry}")
Bullet(entry, i) == multi_cell(0, 5, Cat(Lit("  - "), Str(entry)))

\* lines 211-217 and 220-226: a coloured label, then the bulleted entries
BulletList(label, colour, entries) ==
    set_font("Arial", "B", 10)
    \o set_text_color(colour)
    \o cell(0, 7, Lit(label), 0, 1, "", FALSE)
    \o set_text_color(Black)
    \o set_font("Arial", "", 9)
    \o Calls([i \in 1..Len(entries) |-> Bullet(entries[i], i)])

\* lines 210-228
IssuesAndWarnings(eligibility_results) ==
    LET issues == Get(eligibility_results, "issues", <<>>)
        warnings == Get(eligibility_results, "warnings", <<>>)
    IN  (IF Len(issues) > 0 THEN BulletList("Issues:", Red, issues) ELSE <<>>)
        \o (IF Len(warnings) > 0 THEN BulletList("Warnings:", Orange, warnings) ELSE <<>>)
        \o ln(5)

\* A total that counts the excluded obligations too.
CountedAlways(obl) == TRUE

\* if not excluded
Counted(obl) == ~Truthy(Get(obl, "excluded", PyBool(FALSE)))

\* lines 238-248: one obligation's row, and what raises while it is built
ObligationRow(obl) ==
    LET lender == Get(obl, "lender", PyStr(<<"Unknown">>, 1))
        loan_type == Get(obl, "type", PyStr(<<"Unknown">>, 1))
        amount == Get(obl, "amount", Zero)
        excluded == Truthy(Get(obl, "excluded", PyBool(FALSE)))
        row == <<Str(lender), TitleOf(loan_type), Cat(Lit("Rs"), FmtComma2(amount)),
                 Lit(IF excluded THEN "Excluded" ELSE "Active")>>
    IN  [row |-> row,
         exc |-> IF Counted(obl) /\ ~IsNumber(amount) THEN "TypeError" ELSE FirstExc(row)]

\* total_emi after the loop: if not excluded: total_emi += amount
RECURSIVE TotalEmi(_)
TotalEmi(obligations) ==
    IF Len(obligations) = 0 THEN 0
    ELSE (IF Counted(Head(obligations)) THEN Get(Head(obligations), "amount", Zero).c ELSE 0)
         + TotalEmi(Tail(obligations))

\* The exception the loop of lines 237-248 raises, "" when none.
RECURSIVE ObligationsExc(_)
ObligationsExc(obligations) ==
    IF Len(obligations) = 0 THEN ""
    ELSE IF ObligationRow(Head(obligations)).exc # "" THEN ObligationRow(Head(obligations)).exc
    ELSE ObligationsExc(Tail(obligations))

\* lines 234-250: the rows of the table, the synthetic total row last
ObligationData(obligations) ==
    [i \in 1..Len(obligations) |-> ObligationRow(obligations[i]).row]
    \o << <<Txt(<<>>), Txt(<<>>), Cat(Lit("Rs"), FmtComma2(PyFloat(TotalEmi(obligations)))),
            Lit("TOTAL")>> >>

ObligationHeaders == <<Lit("Lender/Bank"), Lit("Loan Type"), Lit("Monthly EMI"), Lit("Status")>>

\* lines 230-259
ExistingObligations(obligations, eligibility_results) ==
    LET calc == Calculations(eligibility_results)
    IN  section_title("4. EXISTING OBLIGATIONS / EMI DETAILS")
        \o (IF Len(obligations) > 0
            THEN IF ObligationsExc(obligations) # "" THEN raise(ObligationsExc(obligations))
                 ELSE add_table(ObligationHeaders, ObligationData(obligations),
                                <<60, 45, 40, 45>>)
            ELSE set_font("Arial", "", 10)
                 \o cell(0, 7, Lit("No existing loan obligations identified"), 0, 1, "", FALSE)
                 \o ln(3))
        \o add_field("Total Existing Obligations (considered)",
                     CatAll(<<Lit("Rs"),
                              FmtComma2(Get(calc, "total_existing_obligations", Zero)),
                              Lit(" per month")>>))
        \o ln(5)

\* pdf.multi_cell(0, 6, f"{i}. {entry}")
Numbered(entry, i) == multi_cell(0, 6, CatAll(<<Txt(Digits(i)), Lit(". "), Str(entry)>>))

\* lines 264-272 and 281-289: the numbered list, or the green confirmation
PendingList(entries, confirmation) ==
    IF Len(entries) > 0
    THEN set_font("Arial", "", 10)
         \o Calls([i \in 1..Len(entries) |-> Numbered(entries[i], i)])
    ELSE set_font("Arial", "B", 10)
         \o set_text_color(Green)
         \o cell(0, 7, Lit(confirmation), 0, 1, "", FALSE)
         \o set_text_color(Black)

\* f"{d.get('completion_percentage', 0)}%"
Completion(d) == Cat(Str(Get(d, "completion_percentage", Zero)), Lit("%"))

\* lines 261-276
PendingDocuments(pending_docs) ==
    section_title("5. PENDING DOCUMENTS")
    \o PendingList(Get(pending_docs, "pending_documents", <<>>),
                   "All mandatory documents uploaded")
    \o ln(3)
    \o add_field("Document Completion", Completion(pending_docs))
    \o ln(5)

\* lines 278-293
PendingForms(pending_forms) ==
    section_title("6. PENDING FORM DETAILS")
    \o PendingList(Get(pending_forms, "pending_form_fields", <<>>),
                   "All form details complete")
    \o ln(3)
    \o add_field("Form Completion", Completion(pending_forms))
    \o ln(5)

\* lines 300-301
Query(query, i) == multi_cell(0, 5, Str(query)) \o ln(1)

\* lines 295-306
ProbableQueries(queries) ==
    section_title("7. PROBABLE QUERIES")
    \o (IF Len(queries) > 0
        THEN set_font("Arial", "", 9)
             \o Calls([i \in 1..Len(queries) |-> Query(queries[i], i)])
        ELSE set_font("Arial", "B", 10)
             \o set_text_color(Green)
             \o cell(0, 7, Lit("No queries identified. File appears complete."),
                     0, 1, "", FALSE)
             \o set_text_color(Black))

\* The note of lines 311-312, two lines at this font size.
DisclaimerText ==
    [exc |-> "",
     toks |-> <<"Note: This is an AI-generated analysis. Please verify all information with actual documents. Aadhar numbers are masked showing only last 4 digits. PAN numbers are masked showing only last 4 characters.">>,
     lines |-> 2]

\* lines 308-312: the text colour is left grey
Disclaimer ==
    ln(10)
    \o set_font("Arial", "I", 8)
    \o set_text_color(Grey)
    \o multi_cell(0, 5, DisclaimerText)

-----------------------------------------------------------------------------
(* The input bundles the render is checked on. *)

BoundedSeq(S, n) == UNION {[1..k -> S] : k \in 0..n}

\* The restriction of a dict to the keys of K.
Restrict(d, K) == [k \in (DOMAIN d) \cap K |-> d[k]]

\* A dict with one key set.
With(d, key, value) == [k \in (DOMAIN d) \cup {key} |-> IF k = key THEN value ELSE d[k]]

S(string) == PyStr(<<string>>, 1)

\* A string that wraps to `lines` lines.
Long(lines) == PyStr(<<"text", DigitTokens[lines + 1]>>, lines)
Strings == {Long(n) : n \in 1..MaxLines}

FullApplicant ==
    [applicant_name |-> S("A. Sharma"), pan_masked |-> S("XXXXXX234F"),
     aadhar_masked |-> S("XXXX-XXXX-9012"), date_of_birth |-> S("01-01-1990"),
     current_age |-> PyInt(36), mobile_no |-> S("9800000000"),
     email_id |-> S("a@example.com"), current_address |-> Long(MaxLines),
     employer |-> S("ACME Ltd"), designation |-> S("Engineer"),
     department |-> S("R&D"), job_since |-> S("2015"),
     total_experience |-> S("11 years"), office_address |-> S("Pune"),
     loan_amount |-> PyInt(1250000), interest_rate |-> PyFloat(925)]

FullCalculations ==
    [approved_tenure_years |-> PyInt(20), current_age |-> PyInt(36),
     remaining_service_years |-> PyInt(24), max_tenure_allowed |-> PyInt(20),
     current_foir_percent |-> PyFloat(1234), foir_with_requested_loan |-> PyFloat(4550),
     emi_for_requested_loan |-> PyFloat(1234567), max_emi_allowed |-> PyInt(40000),
     max_loan_by_income |-> PyFloat(250000050), approved_loan_amount |-> PyInt(500000),
     recommended_loan_amount |-> PyInt(10000),
     total_existing_obligations |-> PyInt(4000)]

SlipJan ==
    [month |-> S("Jan 2026"),
     earnings |-> [basic |-> PyInt(50000), hra |-> PyInt(20000),
                   medical_allowance |-> PyInt(1250), bonus |-> PyInt(0)],
     deductions |-> [tds |-> PyInt(5000), professional_tax |-> PyInt(200)],
     gross_salary |-> PyInt(71250), net_salary |-> PyInt(66050)]
SlipFeb ==
    [month |-> S("Feb 2026"),
     earnings |-> [basic |-> PyFloat(5000050), hra |-> PyFloat(2000150)],
     gross_salary |-> PyFloat(7000200), net_salary |-> PyFloat(7000249)]
SlipBare == EmptyDict
SlipBad == [month |-> S("Mar 2026"), earnings |-> [basic |-> PyNone]]
Slips == {SlipJan, SlipFeb, SlipBare, SlipBad}

DocPlain == [document_type |-> S("PAN Card")]
DocPeriod == [document_type |-> S("Bank Statement"), period |-> S("6 months")]
DocFull ==
    [document_type |-> S("Salary Slip"), period |-> S("3 months"),
     period_start |-> S("Jan 2026"), period_end |-> S("Mar 2026"),
     warning |-> S("older than 3 months")]
DocUntyped == [warning |-> S("unreadable scan")]
Docs == {DocPlain, DocPeriod, DocFull, DocUntyped}

Chars(seq) == PyStr(seq, 1)
ObligationHome ==
    [lender |-> S("HDFC"), type |-> Chars(<<"h", "o", "m", "e", " ", "l", "O", "A", "N">>),
     amount |-> PyInt(1000), excluded |-> PyBool(FALSE), has_loan_document |-> PyBool(TRUE)]
ObligationCar ==
    [lender |-> S("SBI"), type |-> Chars(<<"c", "a", "r">>),
     amount |-> PyInt(2000), excluded |-> PyBool(TRUE)]
ObligationCard == [lender |-> S("ICICI"), amount |-> PyFloat(300000)]
ObligationBare == EmptyDict
ObligationBad == [type |-> PyNone, amount |-> PyInt(500), excluded |-> PyBool(TRUE)]
ObligationSet == {ObligationHome, ObligationCar, ObligationCard, ObligationBare, ObligationBad}

EmptyBundle ==
    [applicant_data |-> EmptyDict, salary_analysis |-> EmptyDict,
     eligibility_results |-> EmptyDict, obligations |-> <<>>, pending_docs |-> EmptyDict,
     pending_forms |-> EmptyDict, queries |-> <<>>,
     output_filename |-> "loan_analysis_report.pdf"]

FullBundle ==
    [applicant_data |-> FullApplicant,
     salary_analysis |-> [salary_slips |-> <<SlipJan, SlipFeb>>],
     eligibility_results |->
        [eligible |-> PyBool(TRUE), calculations |-> FullCalculations,
         issues |-> <<Long(1)>>, warnings |-> <<Long(1)>>],
     obligations |-> <<ObligationHome, ObligationCar>>,
     pending_docs |->
        [uploaded_documents_details |-> <<DocFull>>, pending_documents |-> <<Long(1)>>,
         completion_percentage |-> PyInt(80)],
     pending_forms |-> [pending_form_fields |-> <<Long(1)>>,
                        completion_percentage |-> PyFloat(6650)],
     queries |-> <<Long(1)>>,
     output_filename |-> "report.pdf"]

Bases == {EmptyBundle, FullBundle}

\* Key sets: all keys, none, all but one, only one.
KeySets(d) ==
    {DOMAIN d, {}} \cup {(DOMAIN d) \ {k} : k \in DOMAIN d} \cup {{k} : k \in DOMAIN d}

ApplicantBundles ==
    {[b EXCEPT !.applicant_data = Restrict(FullApplicant, K)] :
        b \in Bases, K \in KeySets(FullApplicant)}

CalculationBundles ==
    {[b EXCEPT !.eligibility_results =
                  With(@, "calculations", Restrict(FullCalculations, K))] :
        b \in Bases, K \in KeySets(FullCalculations)}

DocumentBundles ==
    {[b EXCEPT !.pending_docs = With(@, "uploaded_documents_details", d)] :
        b \in Bases, d \in BoundedSeq(Docs, MaxDocs)}

SalaryBundles ==
    {[FullBundle EXCEPT !.salary_analysis = [salary_slips |-> sl]] :
        sl \in BoundedSeq(Slips, MaxSlips)}

Flags == {PyBool(TRUE), PyBool(FALSE), PyNone}
Recommended == {PyInt(0), PyInt(10000), PyInt(0 - 500), PyFloat(40), PyNone, S("10000")}
Approved == {PyInt(500000), PyFloat(123450), PyNone}

\* A dict with `key` set to each value of V, and with `key` absent.
Variants(d, key, V) == {With(d, key, v) : v \in V} \cup {Restrict(d, (DOMAIN d) \ {key})}

EligibilityBundles ==
    {[b EXCEPT !.eligibility_results = With(e, "calculations", c)] :
        b \in Bases,
        e \in Variants(FullBundle.eligibility_results, "eligible", Flags),
        c \in UNION {Variants(r, "approved_loan_amount", Approved) :
                        r \in Variants(FullCalculations, "recommended_loan_amount",
                                       Recommended)}}

ObligationBundles ==
    {[b EXCEPT !.obligations = o] :
        b \in Bases, o \in BoundedSeq(ObligationSet, MaxObligations)}

ListBundles ==
    UNION {{[b EXCEPT !.eligibility_results = With(@, "issues", l)],
            [b EXCEPT !.eligibility_results = With(@, "warnings", l)],
            [b EXCEPT !.pending_docs = With(@, "pending_documents", l)],
            [b EXCEPT !.pending_forms = With(@, "pending_form_fields", l)],
            [b EXCEPT !.queries = l]} :
        b \in Bases, l \in BoundedSeq(Strings, MaxList)}

Bundles ==
    ApplicantBundles \cup CalculationBundles \cup DocumentBundles \cup SalaryBundles
    \cup EligibilityBundles \cup ObligationBundles \cup ListBundles

\* datetime.now().strftime('%d %B %Y, %I:%M %p')
Clock == {"05 November 2026, 06:02 AM", "31 December 2026, 11:59 PM"}

-----------------------------------------------------------------------------
(* The render as a state machine. *)

Init ==
    /\ inp \in Bundles
    /\ pc = "begin"
    /\ pdf = NewPDF
    /\ dest = "absent"
    /\ writes = 0
    /\ ret = ""

\* The next position: an exception raised in the block ends the call.
Goto(p, next) == IF p.exc # "" THEN "raised" ELSE next

Advance(from, p, next) ==
    /\ pc = from
    /\ pdf' = p
    /\ pc' = Goto(p, next)
    /\ UNCHANGED <<inp, dest, writes, ret>>

BeginStep ==
    \E now \in Clock : Advance("begin", Run(add_page(pdf), Begin(now)), "documents")

DocumentsUploadedStep ==
    Advance("documents", Run(pdf, DocumentsUploaded(inp.pending_docs)), "applicant")

ApplicantSummaryStep ==
    Advance("applicant", Run(pdf, ApplicantSummary(inp.applicant_data)), "salary")

SalaryBreakupStep ==
    Advance("salary", Run(pdf, SalaryBreakup(inp.salary_analysis)), "eligibility")

EligibilitySummaryStep ==
    Advance("eligibility",
            Run(pdf, EligibilitySummary(inp.applicant_data, inp.eligibility_results)), "verdict")

VerdictStep == Advance("verdict", Run(pdf, Verdict(inp.eligibility_results)), "issues")

IssuesAndWarningsStep ==
    Advance("issues", Run(pdf, IssuesAndWarnings(inp.eligibility_results)), "obligations")

ExistingObligationsStep ==
    Advance("obligations",
            Run(pdf, ExistingObligations(inp.obligations, inp.eligibility_results)),
            "pending_docs")

PendingDocumentsStep ==
    Advance("pending_docs", Run(pdf, PendingDocuments(inp.pending_docs)), "pending_forms")

PendingFormsStep ==
    Advance("pending_forms", Run(pdf, PendingForms(inp.pending_forms)), "queries")

ProbableQueriesStep == Advance("queries", Run(pdf, ProbableQueries(inp.queries)), "disclaimer")

DisclaimerStep == Advance("disclaimer", Run(pdf, Disclaimer), "output")

\* What pdf.output(output_filename) can do to the destination.
Outcomes == {"written", "open failed", "write failed"}

\* The destination after output(): the complete document, a part of it, or
\* what was there before.
Written(before, outcome) ==
    CASE outcome = "written" -> "complete"
      [] outcome = "write failed" -> "partial"
      [] OTHER -> before

\* A guarded output(): the failure swallowed, the identifier returned.
AfterOutputSwallowed(outcome) == "return"

\* line 314 is not guarded: a failure of output() leaves generate_report.
AfterOutput(outcome) == IF outcome = "written" THEN "return" ELSE "raised"

\* line 314: close() draws the last footer, then the file is written
OutputStep ==
    /\ pc = "output"
    /\ \E outcome \in Outcomes :
          /\ pdf' = [close(pdf) EXCEPT !.exc = IF outcome = "written" THEN "" ELSE "IOError"]
          /\ dest' = Written(dest, outcome)
          /\ pc' = AfterOutput(outcome)
    /\ writes' = writes + 1
    /\ UNCHANGED <<inp, ret>>

\* line 315
ReturnStep ==
    /\ pc = "return"
    /\ ret' = inp.output_filename
    /\ pc' = "done"
    /\ UNCHANGED <<inp, pdf, dest, writes>>

Next ==
    \/ BeginStep
    \/ DocumentsUploadedStep
    \/ ApplicantSummaryStep
    \/ SalaryBreakupStep
    \/ EligibilitySummaryStep
    \/ VerdictStep
    \/ IssuesAndWarningsStep
    \/ ExistingObligationsStep
    \/ PendingDocumentsStep
    \/ PendingFormsStep
    \/ ProbableQueriesStep
    \/ DisclaimerStep
    \/ OutputStep
    \/ ReturnStep

Spec == Init /\ [][Next]_vars

-----------------------------------------------------------------------------
(* What the properties read from the drawn document. *)

Items == pdf.items

Content == {i \in DOMAIN Items : Items[i].zone = "content"}

First(positions) == CHOOSE i \in positions : \A j \in positions : i <= j
Last(positions) == CHOOSE i \in positions : \A j \in positions : i >= j

\* The positions of a one-token line of content, such as a section banner.
LinePos(text) == {i \in Content : Items[i].txt = <<text>>}

\* A block is complete once the banner of a later section has been drawn.
Reached(title) == \E i \in DOMAIN Items : Items[i].zone = "content" /\ Items[i].txt = <<title>>

\* Where the banner of a section was drawn.
TitleAt(title) ==
    CHOOSE i \in DOMAIN Items : Items[i].zone = "content" /\ Items[i].txt = <<title>>

\* What was drawn between the banners of two sections, in the order of drawing.
Between(title, next) == SubSeq(Items, TitleAt(title) + 1, TitleAt(next) - 1)

\* The cells of a table: bordered, the header cells filled, the data cells not.
IsHeaderCell(item) == item.zone = "content" /\ item.border = 1 /\ item.fill # <<>>
IsDataCell(item) == item.zone = "content" /\ item.border = 1 /\ item.fill = <<>>

\* The positions of the label of a labelled field.
LabelPos(label) == {i \in Content : Items[i].txt = <<label, ":">>}

\* The value drawn beside the label at position i.
ValueAt(i) == Items[i + 1].txt

Tokens(text) == {text[i] : i \in DOMAIN text}

\* Every optional field of the bundle is absent.
AllAbsent ==
    /\ DOMAIN inp.applicant_data = {}
    /\ DOMAIN inp.salary_analysis = {}
    /\ DOMAIN inp.eligibility_results = {}
    /\ Len(inp.obligations) = 0
    /\ DOMAIN inp.pending_docs = {}
    /\ DOMAIN inp.pending_forms = {}
    /\ Len(inp.queries) = 0

\* No exception but a failure to write the destination.
NoRenderError == pdf.exc \in {"", "IOError"}

\* The dict a labelled field reads.
Source(src) ==
    CASE src = "applicant" -> inp.applicant_data
      [] src = "calculations" -> Calculations(inp.eligibility_results)
      [] src = "pending_docs" -> inp.pending_docs
      [] src = "pending_forms" -> inp.pending_forms

Field(label, last, src, key, shown) ==
    [label |-> label, last |-> last, src |-> src, key |-> key, shown |-> shown]

\* The labelled fields that show the marker when their key is absent.
MarkerFields ==
    {Field(PersonalFields[i][1], FALSE, "applicant", PersonalFields[i][2],
           IF PersonalFields[i][3] = "" THEN <<"N/A">> ELSE <<"N/A", PersonalFields[i][3]>>) :
        i \in DOMAIN PersonalFields}
    \cup {Field(EmploymentFields[i][1], FALSE, "applicant", EmploymentFields[i][2], <<"N/A">>) :
            i \in DOMAIN EmploymentFields}
    \cup {Field("Tenure (Auto-calculated based on age)", FALSE, "calculations",
                "approved_tenure_years", <<"N/A", " years">>),
          Field("Current Age", TRUE, "calculations", "current_age", <<"N/A", " years">>),
          Field("Remaining Service Years", FALSE, "calculations",
                "remaining_service_years", <<"N/A", " years">>),
          Field("Maximum Tenure Allowed", FALSE, "calculations", "max_tenure_allowed",
                <<"N/A", " years">>)}

\* The labelled fields that show a number when their key is absent.
NumberFields ==
    {Field("Requested Loan Amount", FALSE, "applicant", "loan_amount", <<"Rs", "0">>),
     Field("Interest Rate", FALSE, "applicant", "interest_rate", <<"8", ".", "5", "% p.a.">>),
     Field("Current FOIR (before new loan)", FALSE, "calculations", "current_foir_percent",
           <<"0", ".", "0", "0", "%">>),
     Field("FOIR with Requested Loan", FALSE, "calculations", "foir_with_requested_loan",
           <<"0", ".", "0", "0", "%">>),
     Field("EMI for Requested Loan", FALSE, "calculations", "emi_for_requested_loan",
           <<"Rs", "0", ".", "0", "0">>),
     Field("Maximum EMI Capacity", FALSE, "calculations", "max_emi_allowed",
           <<"Rs", "0", ".", "0", "0">>),
     Field("Maximum Loan by Income", FALSE, "calculations", "max_loan_by_income",
           <<"Rs", "0", ".", "0", "0">>),
     Field("Total Existing Obligations (considered)", FALSE, "calculations",
           "total_existing_obligations", <<"Rs", "0", ".", "0", "0", " per month">>),
     Field("Document Completion", FALSE, "pending_docs", "completion_percentage",
           <<"0", "%">>),
     Field("Form Completion", FALSE, "pending_forms", "completion_percentage",
           <<"0", "%">>)}

\* Where the field was drawn: "Current Age" is a label of two sections.
\* Before the eligibility summary is drawn the label's only occurrence is the
\* applicant's.
Drawn(f) ==
    /\ LabelPos(f.label) # {}
    /\ f.last => Reached("3. LOAN ELIGIBILITY SUMMARY") /\ Cardinality(LabelPos(f.label)) = 2

Shown(f) == ValueAt(IF f.last THEN Last(LabelPos(f.label)) ELSE First(LabelPos(f.label)))

Missing(f) == f.key \notin DOMAIN Source(f.src)

-----------------------------------------------------------------------------
C2_NeverRaises == NoRenderError

(* C3: every page has the title banner at its top and, once closed, the    *)
(* page-number footer at its bottom, and all banners are drawn alike and   *)
(* all footers are drawn alike: same text, same font, same text colour.    *)
Chrome(zone) == {i \in DOMAIN Items : Items[i].zone = zone}

ClosedPages == IF pc \in {"return", "done"} THEN 1..pdf.page ELSE 1..(pdf.page - 1)

C3_ChromeIdentical ==
    /\ \A pg \in 1..pdf.page :
          \E i \in Chrome("header") : Items[i].page = pg /\ Items[i].y = 0
    /\ \A pg \in ClosedPages :
          \E i \in Chrome("footer") :
              /\ Items[i].page = pg
              /\ Items[i].y = PageBreakTrigger
              /\ Items[i].txt = <<"Page ">> \o Digits(pg)
    /\ \A i, j \in Chrome("header") :
          /\ Items[i].txt = Items[j].txt
          /\ Items[i].font = Items[j].font
          /\ Items[i].tc = Items[j].tc
    /\ \A i, j \in Chrome("footer") :
          /\ Items[i].font = Items[j].font
          /\ Items[i].tc = Items[j].tc

(* C4: the text colour is back to black after each coloured block, the     *)
(* closing disclaimer included: between two blocks of the render, and      *)
(* after the last, the current text colour is black.                       *)
BetweenBlocks ==
    {"documents", "applicant", "salary", "eligibility", "verdict", "issues", "obligations",
     "pending_docs", "pending_forms", "queries", "disclaimer", "output", "return", "done"}

C4_ColourRestored == pc \in BetweenBlocks => pdf.tc = Black

-----------------------------------------------------------------------------
(* The salary section. *)

GivenSlips == Get(inp.salary_analysis, "salary_slips", <<>>)

SalaryDone == Reached("3. LOAN ELIGIBILITY SUMMARY")

\* What lies between the banner of the salary section and the next banner.
SalarySection ==
    Between("2. COMPLETE SALARY BREAKUP (Last 3 Months)", "3. LOAN ELIGIBILITY SUMMARY")

\* The cells of the salary table, in the order of drawing.
SalaryHeaderCells == SelectSeq(SalarySection, IsHeaderCell)
SalaryDataCells == SelectSeq(SalarySection, IsDataCell)

IsPlaceholderLine(item) ==
    item.zone = "content" /\ item.txt = <<"Salary details unavailable">>

PlaceholderLines == SelectSeq(SalarySection, IsPlaceholderLine)

(* C5: of more than three salary slips the table holds exactly the first   *)
(* three, in their original order, one row each, and no later slip.        *)
C5_FirstThreeSlips ==
    SalaryDone /\ Len(GivenSlips) > 3 =>
        LET cells == SalaryDataCells
            columns == Len(SalaryHeaders)
        IN  /\ Len(cells) = 3 * columns
            /\ \A r \in 1..3 :
                  LET data == SlipData(GivenSlips[r])
                  IN  \A c \in 1..columns : cells[(r - 1) * columns + c].txt = data[c].toks

C5_Witness ==
    /\ SalaryDone
    /\ Len(GivenSlips) > 3
    /\ GivenSlips[4] # GivenSlips[3]
    /\ Len(SalaryDataCells) = 3 * Len(SalaryHeaders)

(* C9: with no salary slip the salary section shows the "unavailable"      *)
(* placeholder and no table; with at least one slip it shows the table     *)
(* and no placeholder.                                                     *)
C9_PlaceholderOrTable ==
    SalaryDone =>
        /\ Len(GivenSlips) = 0 =>
              /\ Len(PlaceholderLines) = 1
              /\ Len(SalaryHeaderCells) = 0
              /\ Len(SalaryDataCells) = 0
        /\ Len(GivenSlips) > 0 =>
              /\ Len(PlaceholderLines) = 0
              /\ Len(SalaryHeaderCells) = Len(SalaryHeaders)
              /\ Len(SalaryDataCells) > 0

C9_WitnessNoSlips == SalaryDone /\ Len(GivenSlips) = 0 /\ Len(PlaceholderLines) = 1

C9_Witness ==
    /\ pc = "done"
    /\ Len(GivenSlips) = 1
    /\ Len(SalaryDataCells) = Len(SalaryHeaders)
    /\ Len(PlaceholderLines) = 0

-----------------------------------------------------------------------------
(* The verdict. *)

VerdictDone == Reached("4. EXISTING OBLIGATIONS / EMI DETAILS")

EligibleFlag == Truthy(Get(inp.eligibility_results, "eligible", PyNone))

RecommendedAmount ==
    Get(Calculations(inp.eligibility_results), "recommended_loan_amount", Zero)

ApprovedAmount ==
    Get(Calculations(inp.eligibility_results), "approved_loan_amount", Zero)

EligibleLines == LinePos("ELIGIBLE FOR LOAN")
NotEligibleLines == LinePos("NOT ELIGIBLE AS PER CURRENT NORMS")
RecommendedLines ==
    {i \in Content : Items[i].txt # <<>> /\ Items[i].txt[1] = "Recommended Amount: Rs"}
ApprovedLines ==
    {i \in Content : Items[i].txt # <<>> /\ Items[i].txt[1] = "Approved Amount: Rs"}

\* The digits of an amount after its "Rs" prefix.
Amount(i) == SubSeq(Items[i].txt, 2, Len(Items[i].txt))

\* Digits only, a comma before every group of three, no decimal point.
GroupedWhole(toks) ==
    /\ Len(toks) > 0
    /\ \A k \in DOMAIN toks :
          IF (Len(toks) - k) % 4 = 3 THEN toks[k] = ","
          ELSE toks[k] \in {"0", "1", "2", "3", "4", "5", "6", "7", "8", "9"}
    /\ toks[1] # ","

(* C7: when the applicant is not eligible the "NOT ELIGIBLE" line is drawn *)
(* and the recommended-amount line is drawn exactly when the recommended   *)
(* amount is greater than zero; the eligible marker is not drawn.          *)
C7_RecommendedIffPositive ==
    VerdictDone /\ ~EligibleFlag =>
        /\ Cardinality(NotEligibleLines) = 1
        /\ RecommendedLines # {} <=> RecommendedAmount.c > 0
        /\ Cardinality(RecommendedLines) <= 1
        /\ \A i \in RecommendedLines : i = First(NotEligibleLines) + 1
        /\ EligibleLines = {} /\ ApprovedLines = {}

C7_WitnessZero ==
    /\ VerdictDone /\ ~EligibleFlag
    /\ RecommendedAmount.c = 0 /\ NotEligibleLines # {} /\ RecommendedLines = {}

C7_Witness ==
    /\ VerdictDone /\ ~EligibleFlag
    /\ RecommendedAmount.c > 0 /\ NotEligibleLines # {} /\ RecommendedLines # {}

(* C8: when the applicant is eligible the eligible marker and the approved *)
(* amount are drawn, the amount with thousands separators and no decimal   *)
(* places (500000 as 500,000), and neither the "NOT ELIGIBLE" line nor a   *)
(* recommended amount; every render draws exactly one of the two verdicts. *)
C8_EligibleVerdict ==
    /\ VerdictDone /\ EligibleFlag =>
          /\ Cardinality(EligibleLines) = 1
          /\ Cardinality(ApprovedLines) = 1
          /\ First(ApprovedLines) = First(EligibleLines) + 1
          /\ ApprovedAmount.c >= 0 => GroupedWhole(Amount(First(ApprovedLines)))
          /\ ApprovedAmount.t = "int" /\ ApprovedAmount.c = 500000 * 100 =>
                Amount(First(ApprovedLines)) = <<"5", "0", "0", ",", "0", "0", "0">>
          /\ NotEligibleLines = {} /\ RecommendedLines = {}
    /\ VerdictDone => Cardinality(EligibleLines) + Cardinality(NotEligibleLines) = 1

C8_Witness ==
    /\ VerdictDone /\ EligibleFlag
    /\ ApprovedAmount.t = "int" /\ ApprovedAmount.c = 500000 * 100
    /\ EligibleLines # {} /\ ApprovedLines # {}

-----------------------------------------------------------------------------
(* The obligations table. *)

ObligationsDone == Reached("5. PENDING DOCUMENTS")

ObligationSection ==
    Between("4. EXISTING OBLIGATIONS / EMI DETAILS", "5. PENDING DOCUMENTS")

\* The data cells of the table in the order of drawing, four to a row.
ObligationCells == SelectSeq(ObligationSection, IsDataCell)

\* The text of row r and column c of the cells.
CellText(cells, r, c) == cells[(r - 1) * 4 + c].txt

ExcludedFlag(obl) == Truthy(Get(obl, "excluded", PyBool(FALSE)))

\* The amounts, in hundredths, of the first k obligations that are not excluded.
RECURSIVE ActiveSum(_)
ActiveSum(k) ==
    IF k = 0 THEN 0
    ELSE ActiveSum(k - 1)
         + (IF ExcludedFlag(inp.obligations[k]) THEN 0
            ELSE Get(inp.obligations[k], "amount", Zero).c)

Money(cents) == <<"Rs">> \o FmtComma2(PyFloat(cents)).toks

(* C6: the total row of the obligations table is its last row and shows    *)
(* the sum of the amounts of the obligations that are not excluded; every  *)
(* obligation, excluded or not, has its own row with its own amount, and   *)
(* its status is "Excluded" when excluded and "Active" otherwise.          *)
C6_TotalOfActive ==
    ObligationsDone /\ Len(inp.obligations) > 0 =>
        LET n == Len(inp.obligations)
            cells == ObligationCells
        IN  /\ Len(cells) = 4 * (n + 1)
            /\ \A r \in 1..n :
                  /\ CellText(cells, r, 3) = Money(Get(inp.obligations[r], "amount", Zero).c)
                  /\ CellText(cells, r, 4) =
                        IF ExcludedFlag(inp.obligations[r])
                        THEN <<"Excluded">> ELSE <<"Active">>
            /\ CellText(cells, n + 1, 3) = Money(ActiveSum(n))
            /\ CellText(cells, n + 1, 4) = <<"TOTAL">>

\* Amounts 1000, 2000 (excluded) and 3000: the total row shows 4000.00.
C6_Witness ==
    /\ ObligationsDone
    /\ Len(inp.obligations) = 3
    /\ LET cells == ObligationCells
       IN  /\ Len(cells) = 16
           /\ CellText(cells, 1, 3) = <<"Rs", "1", ",", "0", "0", "0", ".", "0", "0">>
           /\ CellText(cells, 2, 3) = <<"Rs", "2", ",", "0", "0", "0", ".", "0", "0">>
           /\ CellText(cells, 2, 4) = <<"Excluded">>
           /\ CellText(cells, 3, 3) = <<"Rs", "3", ",", "0", "0", "0", ".", "0", "0">>
           /\ CellText(cells, 4, 3) = <<"Rs", "4", ",", "0", "0", "0", ".", "0", "0">>
           /\ CellText(cells, 4, 4) = <<"TOTAL">>

-----------------------------------------------------------------------------
(* The destination. *)

SectionTitles ==
    {"1. APPLICANT SUMMARY", "2. COMPLETE SALARY BREAKUP (Last 3 Months)",
     "3. LOAN ELIGIBILITY SUMMARY", "4. EXISTING OBLIGATIONS / EMI DETAILS",
     "5. PENDING DOCUMENTS", "6. PENDING FORM DETAILS", "7. PROBABLE QUERIES"}

DisclaimerDrawn == \E i \in Content : Items[i].txt = DisclaimerText.toks

(* C10: the destination is written at most once, and only after every      *)
(* section and the disclaimer are drawn; a render that fails before that   *)
(* leaves the destination untouched; a failed write leaves generate_report *)
(* by the error, and the destination identifier is returned only when the  *)
(* whole document is written.                                              *)
C10_WrittenOnceAtTheEnd ==
    /\ writes <= 1
    /\ writes = 0 => dest = "absent"
    /\ writes = 1 =>
          /\ \A title \in SectionTitles : Reached(title)
          /\ DisclaimerDrawn
          /\ pc \in {"return", "done", "raised"}
    /\ pc = "raised" /\ pdf.exc # "IOError" => writes = 0 /\ dest = "absent"
    /\ pdf.exc = "IOError" => pc = "raised" /\ ret = "" /\ writes = 1
    /\ ret # "" => pc = "done" /\ dest = "complete" /\ pdf.exc = ""

C10_WitnessReturned == pc = "done" /\ ret = inp.output_filename /\ dest = "complete"

C10_WitnessEarlyFailure == pc = "raised" /\ pdf.exc = "KeyError" /\ dest = "absent"

C10_Witness == pc = "raised" /\ pdf.exc = "IOError" /\ writes = 1 /\ ret = ""

=============================================================================
